---- MODULE Spec2Model ----
(***************************************************************************)
(* Model of the LiDAR packet capture / record / replay subsystem           *)
(* (lidar/lidar_reader.py, lidar/lidar_processing.py).                     *)
(*                                                                         *)
(* Three state machines share the variables below:                        *)
(*   SpecCodec  - the log writer (the append of LidarLogger.record) fed    *)
(*                with an arbitrary packet sequence, a truncation of the   *)
(*                file, and the two readers (load_packets and              *)
(*                LidarReplayer._packet_generator);                        *)
(*   SpecReplay - LidarReplayer.packets_realtime driven by a consumer,     *)
(*                with a wall clock, consumer lag and sleeps;              *)
(*   Spec       - a live session: LidarLogger.record and the listen loop   *)
(*                of main, statement by statement, with a wall clock, a    *)
(*                UDP source, write errors and KeyboardInterrupt.          *)
(*                                                                         *)
(* Time is counted in whole seconds.  A file is the sequence of its bytes. *)
(***************************************************************************)
EXTENDS Integers, Sequences, FiniteSets, TLC

\* ------------------------------------------------------------------ bounds
MaxPkts == 2        \* packets handed to the writer
MaxReplay == 3      \* records in a replayed file
MaxLag == 3         \* longest pause of the consumer between two packets
MaxOversleep == 1   \* how much longer than asked time.sleep may take
MaxTime == 12       \* the wall clock of a live session is followed up to here
MaxRecv == 2        \* datagrams the source delivers in a live session
MaxInterrupts == 2  \* KeyboardInterrupts delivered to a live session

\* ------------------------------------------------------- program constants
HEADER_SIZE == 12   \* struct.Struct("dI").size: 8-byte double + 4-byte uint32
RECV_TIMEOUT == 5   \* receive(timeout=5.0)

\* The values the inputs are drawn from.
Timestamps == {0, 3, 37}
ReplayStamps == {0, 3, 4}
Payloads == {<<>>, <<7>>, <<0, 255>>}
Packet == [timestamp : Timestamps, data : Payloads]

\* ------------------------------------------------------------ arithmetic
Min(a, b) == IF a < b THEN a ELSE b

RECURSIVE Pow2(_)
Pow2(k) == IF k = 0 THEN 1 ELSE 2 * Pow2(k - 1)

RECURSIVE Log2Floor(_)
Log2Floor(n) == IF n < 2 THEN 0 ELSE 1 + Log2Floor(n \div 2)

\* --------------------------------------------------- HEADER = Struct("dI")
\* IEEE-754 binary64 of a whole number 0 <= ts < 4096, little-endian bytes:
\* sign 0, biased exponent 1023 + e, the top 12 bits of the 52-bit mantissa
\* (the other 40 bits are zero for these values).
PackDouble(ts) ==
    IF ts = 0 THEN <<0, 0, 0, 0, 0, 0, 0, 0>>
    ELSE LET e == Log2Floor(ts)
             bexp == 1023 + e
             m12 == (ts - Pow2(e)) * Pow2(12 - e)
         IN  <<0, 0, 0, 0, 0, m12 % 256, (bexp % 16) * 16 + (m12 \div 256), bexp \div 16>>

\* Mutant: the length written big-endian while the reader decodes little-endian.
PackU32_BigEndian(n) ==
    <<(n \div 16777216) % 256, (n \div 65536) % 256, (n \div 256) % 256, n % 256>>

\* uint32, little-endian.
PackU32(n) ==
    <<n % 256, (n \div 256) % 256, (n \div 65536) % 256, (n \div 16777216) % 256>>

\* HEADER.pack(timestamp, length)
pack(ts, n) == PackDouble(ts) \o PackU32(n)

\* The double encoded by 8 bytes.  Defined on the encodings of whole numbers
\* 0 <= ts < 4096; every other bit pattern (fractions, negatives, NaN, ...)
\* is outside the modelled timestamps and decodes to -1.
UnpackDouble(b) ==
    IF b = <<0, 0, 0, 0, 0, 0, 0, 0>> THEN 0
    ELSE LET bexp == (b[8] % 128) * 16 + (b[7] \div 16)
             e == bexp - 1023
             m12 == (b[7] % 16) * 256 + b[6]
         IN  IF /\ b[8] < 128
                /\ e \in 0..11
                /\ \A i \in 1..5 : b[i] = 0
                /\ (m12 * Pow2(e)) % 4096 = 0
             THEN Pow2(e) + (m12 * Pow2(e)) \div 4096
             ELSE -1

UnpackU32(b) == b[1] + 256 * b[2] + 65536 * b[3] + 16777216 * b[4]

\* HEADER.unpack(header_bytes) -> (ts, length)
unpack(hb) == <<UnpackDouble(SubSeq(hb, 1, 8)), UnpackU32(SubSeq(hb, 9, 12))>>

\* f.read(n) with the cursor after pos bytes: at most n bytes, fewer at the end.
Read(f, pos, n) == SubSeq(f, pos + 1, Min(pos + n, Len(f)))

\* The bytes record() appends for one packet: header, then payload.
Record(p) == pack(p.timestamp, Len(p.data)) \o p.data

RECURSIVE Encode(_)
Encode(ps) == IF ps = <<>> THEN <<>> ELSE Record(Head(ps)) \o Encode(Tail(ps))

\* ------------------------------------------------------------ load_packets
\* Mutant: the bulk reader without its short-payload check.
RECURSIVE LoadFrom_NoShortCheck(_, _, _)
LoadFrom_NoShortCheck(f, pos, packets) ==
    LET header_bytes == Read(f, pos, HEADER_SIZE)
    IN  IF header_bytes = <<>> \/ Len(header_bytes) < HEADER_SIZE THEN packets
        ELSE LET h == unpack(header_bytes)
                 data == Read(f, pos + HEADER_SIZE, h[2])
             IN  LoadFrom_NoShortCheck(f, pos + HEADER_SIZE + h[2],
                     Append(packets, [timestamp |-> h[1], data |-> data]))

RECURSIVE LoadFrom(_, _, _)
LoadFrom(f, pos, packets) ==
    LET header_bytes == Read(f, pos, HEADER_SIZE)
    IN  IF header_bytes = <<>> \/ Len(header_bytes) < HEADER_SIZE THEN packets
        ELSE LET h == unpack(header_bytes)
                 data == Read(f, pos + HEADER_SIZE, h[2])
             IN  IF Len(data) < h[2] THEN packets
                 ELSE LoadFrom(f, pos + HEADER_SIZE + h[2],
                               Append(packets, [timestamp |-> h[1], data |-> data]))

load_packets(f) == LoadFrom(f, 0, <<>>)

VARIABLES
    \* the binary log file
    file,        \* its bytes
    \* SpecCodec: writer
    inPkts,      \* the packets handed to the writer
    wi,          \* index of the packet being written
    wpc,         \* "header" | "payload" | "closed"
    truncAt,     \* -1, or the offset the written file was truncated at
    \* bulk reader
    loadDone,    \* load_packets has returned
    loaded,      \* what it returned
    \* LidarReplayer._packet_generator
    gpos,        \* read cursor of the generator
    gdone,       \* the generator is exhausted
    genOut,      \* the packets it has yielded
    \* the wall clock, time.time()
    now,
    \* LidarReplayer.packets_realtime
    rpc,         \* "start" | "pace" | "emit" | "yielded" | "done" | "error"
    t0_original, \* timestamp of the first record
    t0_wall,     \* wall clock when the first record was taken
    cur,         \* pkt of the for loop
    resumeAt,    \* wall clock when the consumer asked for cur
    slept,       \* seconds of sleep requested for cur
    nsleeps,     \* calls of time.sleep so far
    emitted,     \* the packets yielded to the consumer, with their times
    \* a live session: LidarLogger.record, or the listen loop of main
    mode,        \* "record" | "listen"
    duration,    \* duration_sec, -1 for None
    pc,          \* the statement the session is at
    sock,        \* rx.sock: "none" | "unbound" | "bound"
    metaCreated, \* the .json sidecar exists
    binCreated,  \* the .bin file exists
    fopen,       \* fbin: "none" | "open" | "closed"
    count,       \* count
    t0,          \* t0
    pkt,         \* pkt, when it is a packet
    pktNone,     \* pkt is None
    exc,         \* the exception in flight: "none" | "KeyboardInterrupt" | "OSError"
    printed,     \* the kinds of message printed so far
    reported,    \* the count of "Final packet count", -1 before it is printed
    lastBlock,   \* seconds the last receive blocked
    nrecv,       \* datagrams delivered so far
    ninterrupts, \* KeyboardInterrupts delivered so far
    \* nav/safety_layer.py: one call of apply_safety
    v_des,       \* desired linear velocity
    w_des,       \* desired angular velocity
    dNone,       \* min_distance_ahead is None
    d_min,       \* min_distance_ahead, when it is a number
    safe_distance,
    spc,         \* "call" | "returned"
    v_cmd,       \* first component of the result
    w_cmd        \* second component of the result

writerVars == <<inPkts, wi, wpc, truncAt>>
readerVars == <<loadDone, loaded, gpos, gdone, genOut>>
replayVars == <<rpc, t0_original, t0_wall, cur, resumeAt, slept, nsleeps, emitted>>
liveVars == <<mode, duration, pc, sock, metaCreated, binCreated, fopen, count, t0,
              pkt, pktNone, exc, printed, reported, lastBlock, nrecv, ninterrupts>>
offlineVars == <<writerVars, readerVars, replayVars>>
safetyVars == <<v_des, w_des, dNone, d_min, safe_distance, spc, v_cmd, w_cmd>>
vars == <<file, writerVars, readerVars, now, replayVars, liveVars, safetyVars>>

NoPacket == [timestamp |-> 0, data |-> <<>>]

\* ----------------------------------------------- _packet_generator, one next()
\* Mutant: the generator without its short-payload check.
GenDecode_NoShortCheck(f, pos) ==
    LET header_bytes == Read(f, pos, HEADER_SIZE)
    IN  IF header_bytes = <<>> \/ Len(header_bytes) < HEADER_SIZE
        THEN [ok |-> FALSE, pkt |-> [timestamp |-> 0, data |-> <<>>], pos |-> pos]
        ELSE LET h == unpack(header_bytes)
                 data == Read(f, pos + HEADER_SIZE, h[2])
             IN  [ok |-> TRUE, pkt |-> [timestamp |-> h[1], data |-> data],
                  pos |-> pos + HEADER_SIZE + h[2]]

\* One iteration of the generator's loop from cursor pos:
\* [ok |-> TRUE, pkt, pos] when it yields, [ok |-> FALSE] when it breaks.
GenDecode(f, pos) ==
    LET header_bytes == Read(f, pos, HEADER_SIZE)
    IN  IF header_bytes = <<>> \/ Len(header_bytes) < HEADER_SIZE
        THEN [ok |-> FALSE, pkt |-> [timestamp |-> 0, data |-> <<>>], pos |-> pos]
        ELSE LET h == unpack(header_bytes)
                 data == Read(f, pos + HEADER_SIZE, h[2])
             IN  IF Len(data) < h[2]
                 THEN [ok |-> FALSE, pkt |-> [timestamp |-> 0, data |-> <<>>], pos |-> pos]
                 ELSE [ok |-> TRUE, pkt |-> [timestamp |-> h[1], data |-> data],
                       pos |-> pos + HEADER_SIZE + h[2]]

\* ================================================================ SpecCodec
SeqsUpTo(S, n) == UNION {[1..k -> S] : k \in 0..n}

InitCodec ==
    /\ inPkts \in SeqsUpTo(Packet, MaxPkts)
    /\ file = <<>>
    /\ wi = 1
    /\ wpc = IF inPkts = <<>> THEN "closed" ELSE "header"
    /\ truncAt = -1
    /\ loadDone = FALSE
    /\ loaded = <<>>
    /\ gpos = 0
    /\ gdone = FALSE
    /\ genOut = <<>>
    /\ now = 0
    /\ rpc = "start" /\ t0_original = 0 /\ t0_wall = 0 /\ cur = NoPacket
    /\ resumeAt = 0 /\ slept = 0 /\ nsleeps = 0 /\ emitted = <<>>
    /\ v_des = 0 /\ w_des = 0 /\ dNone = TRUE /\ d_min = 0 /\ safe_distance = 0
    /\ spc = "returned" /\ v_cmd = 0 /\ w_cmd = 0
    /\ mode = "record" /\ duration = -1 /\ pc = "done" /\ sock = "none"
    /\ metaCreated = FALSE /\ binCreated = FALSE /\ fopen = "none"
    /\ count = 0 /\ t0 = 0 /\ pkt = NoPacket /\ pktNone = TRUE /\ exc = "none"
    /\ printed = {} /\ reported = -1 /\ lastBlock = 0 /\ nrecv = 0 /\ ninterrupts = 0

\* header = pkt_struct.pack(pkt.timestamp, len(pkt.data)); fbin.write(header)
WriteHeader ==
    /\ wpc = "header"
    /\ file' = file \o pack(inPkts[wi].timestamp, Len(inPkts[wi].data))
    /\ wpc' = "payload"
    /\ UNCHANGED <<safetyVars, liveVars, inPkts, wi, truncAt, readerVars, now, replayVars>>

\* fbin.write(pkt.data); the file is closed after the last packet
WritePayload ==
    /\ wpc = "payload"
    /\ file' = file \o inPkts[wi].data
    /\ wi' = wi + 1
    /\ wpc' = IF wi = Len(inPkts) THEN "closed" ELSE "header"
    /\ UNCHANGED <<safetyVars, liveVars, inPkts, truncAt, readerVars, now, replayVars>>

\* The closed file loses its tail before anyone reads it.
Truncate ==
    /\ wpc = "closed"
    /\ truncAt = -1
    /\ ~loadDone /\ gpos = 0 /\ ~gdone
    /\ \E k \in 0..(Len(file) - 1) :
         /\ file' = SubSeq(file, 1, k)
         /\ truncAt' = k
    /\ UNCHANGED <<safetyVars, liveVars, inPkts, wi, wpc, readerVars, now, replayVars>>

\* packets = load_packets(bin_path)
LoadPackets ==
    /\ wpc = "closed"
    /\ rpc \in {"start", "done"}
    /\ ~loadDone
    /\ loaded' = load_packets(file)
    /\ loadDone' = TRUE
    /\ UNCHANGED <<safetyVars, liveVars, file, writerVars, gpos, gdone, genOut, now, replayVars>>

\* next(gen) on the generator, called by a consumer that drains it
GenNext ==
    /\ wpc = "closed"
    /\ rpc = "start"
    /\ loadDone
    /\ ~gdone
    /\ LET r == GenDecode(file, gpos)
       IN  IF r.ok
           THEN /\ genOut' = Append(genOut, r.pkt)
                /\ gpos' = r.pos
                /\ gdone' = FALSE
           ELSE /\ gdone' = TRUE
                /\ UNCHANGED <<genOut, gpos>>
    /\ UNCHANGED <<safetyVars, liveVars, file, writerVars, loadDone, loaded, now, replayVars>>

NextCodec ==
    \/ WriteHeader
    \/ WritePayload
    \/ Truncate
    \/ LoadPackets
    \/ GenNext

SpecCodec == InitCodec /\ [][NextCodec]_vars

\* =============================================================== SpecReplay
ReplayStart == {1}  \* wall clock when the replay begins
ReplayData(i) == IF i = 2 THEN <<7>> ELSE <<>>

\* The replayed files: records with any timestamps, whole or cut in the tail.
ReplayInputs ==
    {[i \in 1..Len(ts) |-> [timestamp |-> ts[i], data |-> ReplayData(i)]] :
        ts \in SeqsUpTo(ReplayStamps, MaxReplay)}

InitReplay ==
    /\ inPkts \in ReplayInputs
    /\ truncAt \in {-1, Len(Encode(inPkts)) - 1}
    /\ file = IF truncAt = -1 THEN Encode(inPkts)
              ELSE SubSeq(Encode(inPkts), 1, truncAt)
    /\ wi = Len(inPkts) + 1
    /\ wpc = "closed"
    /\ loadDone = FALSE /\ loaded = <<>>
    /\ gpos = 0 /\ gdone = FALSE /\ genOut = <<>>
    /\ now \in ReplayStart
    /\ rpc = "start" /\ t0_original = 0 /\ t0_wall = 0 /\ cur = NoPacket
    /\ resumeAt = 0 /\ slept = 0 /\ nsleeps = 0 /\ emitted = <<>>
    /\ v_des = 0 /\ w_des = 0 /\ dNone = TRUE /\ d_min = 0 /\ safe_distance = 0
    /\ spc = "returned" /\ v_cmd = 0 /\ w_cmd = 0
    /\ mode = "record" /\ duration = -1 /\ pc = "done" /\ sock = "none"
    /\ metaCreated = FALSE /\ binCreated = FALSE /\ fopen = "none"
    /\ count = 0 /\ t0 = 0 /\ pkt = NoPacket /\ pktNone = TRUE /\ exc = "none"
    /\ printed = {} /\ reported = -1 /\ lastBlock = 0 /\ nrecv = 0 /\ ninterrupts = 0

\* Mutant: pacing against the previous emission instead of the replay start.
TargetWall_FromPrev(p) ==
    LET prev == emitted[Len(emitted)]
    IN  prev.at + (p.timestamp - prev.pkt.timestamp)

\* target_wall = t0_wall + (pkt.timestamp - t0_original)
TargetWall(p) == t0_wall + (p.timestamp - t0_original)

\* Mutant: the comparison of target and clock turned around.
SleepFor_Inverted(target, t) == IF target < t THEN t - target ELSE 0

\* the argument of time.sleep, 0 when it is not called
SleepFor(target, t) == IF target > t THEN target - t ELSE 0

Emission(p) == [pkt |-> p, at |-> now, resumeAt |-> resumeAt, slept |-> slept]

\* Mutant: first.timestamp read without the test for None.
ReplayFirst_NoNoneCheck ==
    /\ rpc = "start"
    /\ gpos = 0 /\ ~gdone
    /\ LET r == GenDecode(file, gpos)
       IN  IF r.ok
           THEN /\ genOut' = Append(genOut, r.pkt)
                /\ gpos' = r.pos
                /\ gdone' = FALSE
                /\ t0_original' = r.pkt.timestamp
                /\ t0_wall' = now
                /\ cur' = r.pkt
                /\ resumeAt' = now
                /\ emitted' = Append(emitted, [pkt |-> r.pkt, at |-> now,
                                               resumeAt |-> now, slept |-> 0])
                /\ rpc' = "yielded"
           ELSE /\ gdone' = TRUE
                /\ rpc' = "error"
                /\ UNCHANGED <<genOut, gpos, t0_original, t0_wall, cur, resumeAt, emitted>>
    /\ UNCHANGED <<safetyVars, liveVars, file, writerVars, loadDone, loaded, now, slept, nsleeps>>

\* The consumer's first next(): gen = self._packet_generator();
\* first = next(gen, None); return when None; t0_original, t0_wall; yield first
ReplayFirst ==
    /\ rpc = "start"
    /\ gpos = 0 /\ ~gdone
    /\ LET r == GenDecode(file, gpos)
       IN  IF r.ok
           THEN /\ genOut' = Append(genOut, r.pkt)
                /\ gpos' = r.pos
                /\ gdone' = FALSE
                /\ t0_original' = r.pkt.timestamp
                /\ t0_wall' = now
                /\ cur' = r.pkt
                /\ resumeAt' = now
                /\ emitted' = Append(emitted, [pkt |-> r.pkt, at |-> now,
                                               resumeAt |-> now, slept |-> 0])
                /\ rpc' = "yielded"
           ELSE /\ gdone' = TRUE
                /\ rpc' = "done"
                /\ UNCHANGED <<genOut, gpos, t0_original, t0_wall, cur, resumeAt, emitted>>
    /\ UNCHANGED <<safetyVars, liveVars, file, writerVars, loadDone, loaded, now, slept, nsleeps>>

\* The consumer works on the packet for lag seconds and asks for the next:
\* for pkt in gen
ReplayResume ==
    /\ rpc = "yielded"
    /\ \E lag \in 0..MaxLag :
         /\ now' = now + lag
         /\ resumeAt' = now + lag
    /\ LET r == GenDecode(file, gpos)
       IN  IF r.ok
           THEN /\ genOut' = Append(genOut, r.pkt)
                /\ gpos' = r.pos
                /\ gdone' = FALSE
                /\ cur' = r.pkt
                /\ rpc' = "pace"
           ELSE /\ gdone' = TRUE
                /\ rpc' = "done"
                /\ UNCHANGED <<genOut, gpos, cur>>
    /\ UNCHANGED <<safetyVars, liveVars, file, writerVars, loadDone, loaded, t0_original, t0_wall,
                   slept, nsleeps, emitted>>

\* Mutant: a wait that polls a clock value read once, so it never ends.
ReplayPace_StaleClock ==
    /\ rpc = "pace"
    /\ IF SleepFor(TargetWall(cur), now) > 0
       THEN UNCHANGED vars
       ELSE /\ slept' = 0
            /\ rpc' = "emit"
            /\ UNCHANGED <<safetyVars, liveVars, file, writerVars, readerVars, now,
                           t0_original, t0_wall, cur, resumeAt, nsleeps, emitted>>

\* dt_original, target_wall, now = time.time();
\* if target_wall > now: time.sleep(target_wall - now)
ReplayPace ==
    /\ rpc = "pace"
    /\ LET d == SleepFor(TargetWall(cur), now)
       IN  /\ slept' = d
           /\ IF d > 0
              THEN /\ nsleeps' = nsleeps + 1
                   /\ \E over \in 0..MaxOversleep : now' = now + d + over
              ELSE UNCHANGED <<nsleeps, now>>
    /\ rpc' = "emit"
    /\ UNCHANGED <<safetyVars, liveVars, file, writerVars, readerVars, t0_original, t0_wall, cur,
                   resumeAt, emitted>>

\* Mutant: a record whose target has passed is skipped to catch up.
ReplayEmit_DropLate ==
    /\ rpc = "emit"
    /\ emitted' = IF now > TargetWall(cur) THEN emitted ELSE Append(emitted, Emission(cur))
    /\ rpc' = "yielded"
    /\ UNCHANGED <<safetyVars, liveVars, file, writerVars, readerVars, now, t0_original, t0_wall, cur,
                   resumeAt, slept, nsleeps>>

\* yield pkt
ReplayEmit ==
    /\ rpc = "emit"
    /\ emitted' = Append(emitted, Emission(cur))
    /\ rpc' = "yielded"
    /\ UNCHANGED <<safetyVars, liveVars, file, writerVars, readerVars, now, t0_original, t0_wall, cur,
                   resumeAt, slept, nsleeps>>

NextReplay ==
    \/ ReplayFirst
    \/ ReplayResume
    \/ ReplayPace
    \/ ReplayEmit
    \/ LoadPackets

SpecReplay == InitReplay /\ [][NextReplay]_vars

\* The replay with a consumer that keeps asking for packets and a clock that
\* keeps advancing: every step of packets_realtime that can be taken is taken.
FairSpecReplay ==
    /\ InitReplay
    /\ [][NextReplay]_vars
    /\ WF_vars(ReplayFirst)
    /\ WF_vars(ReplayResume)
    /\ WF_vars(ReplayPace)
    /\ WF_vars(ReplayEmit)

\* ===================================================================== Spec
\* A live session, one statement per action.  The wall clock moves only
\* while recvfrom blocks; the other statements take no time.
PROGRESS_EVERY == 500          \* record: if count % 500 == 0
LISTEN_PROGRESS_EVERY == 100   \* listen: if count % 100 == 0
LiveStart == {1}               \* wall clock when the session starts
Durations == {-1, 0, 1, 2}     \* duration_sec; -1 is None
RecvPayloads == {<<>>, <<7>>}  \* the datagrams the source sends

\* the statements inside the try block of record / of the listen loop
RecordingPcs == {"check", "recv", "test_pkt", "write_header", "write_payload", "count"}
ListeningPcs == {"l_recv", "l_test", "l_count"}
EndedPcs == {"done", "raised"}

InitLive ==
    /\ mode \in {"record", "listen"}
    /\ duration \in (IF mode = "record" THEN Durations ELSE {-1})
    /\ pc = "connect"
    /\ sock = "none"
    /\ metaCreated = FALSE /\ binCreated = FALSE /\ fopen = "none"
    /\ file = <<>>
    /\ count = 0 /\ t0 = 0 /\ pkt = NoPacket /\ pktNone = TRUE /\ exc = "none"
    /\ printed = {} /\ reported = -1 /\ lastBlock = 0 /\ nrecv = 0 /\ ninterrupts = 0
    /\ now \in LiveStart
    /\ inPkts = <<>> /\ wi = 1 /\ wpc = "closed" /\ truncAt = -1
    /\ loadDone = FALSE /\ loaded = <<>>
    /\ gpos = 0 /\ gdone = FALSE /\ genOut = <<>>
    /\ rpc = "start" /\ t0_original = 0 /\ t0_wall = 0 /\ cur = NoPacket
    /\ resumeAt = 0 /\ slept = 0 /\ nsleeps = 0 /\ emitted = <<>>
    /\ v_des = 0 /\ w_des = 0 /\ dNone = TRUE /\ d_min = 0 /\ safe_distance = 0
    /\ spc = "returned" /\ v_cmd = 0 /\ w_cmd = 0

\* Mutant: a failed bind is swallowed and the session goes on.
Connect_SwallowBindError ==
    /\ pc = "connect"
    /\ \/ /\ sock' = "bound"
          /\ printed' = printed \cup {"listening"}
       \/ /\ sock' = "unbound"
          /\ UNCHANGED printed
    /\ pc' = IF mode = "record" THEN "create_meta" ELSE "l_init"
    /\ UNCHANGED <<safetyVars, file, offlineVars, now, mode, duration, metaCreated, binCreated, fopen,
                   count, t0, pkt, pktNone, exc, reported, lastBlock, nrecv, ninterrupts>>

\* rx.connect(): socket(), setsockopt(), bind(); bind may fail
Connect ==
    /\ pc = "connect"
    /\ \/ /\ sock' = "bound"
          /\ printed' = printed \cup {"listening"}
          /\ pc' = IF mode = "record" THEN "create_meta" ELSE "l_init"
          /\ UNCHANGED exc
       \/ /\ sock' = "unbound"
          /\ exc' = "OSError"
          /\ pc' = "raised"
          /\ UNCHANGED printed
    /\ UNCHANGED <<safetyVars, file, offlineVars, now, mode, duration, metaCreated, binCreated, fopen,
                   count, t0, pkt, pktNone, reported, lastBlock, nrecv, ninterrupts>>

\* _create_files: the metadata sidecar is written
CreateMeta ==
    /\ pc = "create_meta"
    /\ metaCreated' = TRUE
    /\ pc' = "open_bin"
    /\ UNCHANGED <<safetyVars, file, offlineVars, now, mode, duration, sock, binCreated, fopen, count, t0,
                   pkt, pktNone, exc, printed, reported, lastBlock, nrecv, ninterrupts>>

\* _create_files: fbin = open(bin_path, "wb"); the two paths are printed
OpenBin ==
    /\ pc = "open_bin"
    /\ binCreated' = TRUE
    /\ fopen' = "open"
    /\ file' = <<>>
    /\ printed' = printed \cup {"logging_to"}
    /\ pc' = "init"
    /\ UNCHANGED <<safetyVars, offlineVars, now, mode, duration, sock, metaCreated, count, t0,
                   pkt, pktNone, exc, reported, lastBlock, nrecv, ninterrupts>>

\* pkt_struct = self.HEADER; count = 0; t0 = time.time()
RecInit ==
    /\ pc = "init"
    /\ count' = 0
    /\ t0' = now
    /\ pc' = "check"
    /\ UNCHANGED <<safetyVars, file, offlineVars, now, mode, duration, sock, metaCreated, binCreated, fopen,
                   pkt, pktNone, exc, printed, reported, lastBlock, nrecv, ninterrupts>>

\* Mutant: the elapsed time measured from the last packet instead of t0.
DurationReached_SinceLastPacket(t) ==
    duration # -1 /\ (t - (IF nrecv = 0 THEN t0 ELSE pkt.timestamp)) >= duration

\* duration_sec is not None and (time.time() - t0) >= duration_sec
DurationReached(t) == duration # -1 /\ (t - t0) >= duration

\* the head of the while loop: the duration test, and the break
RecCheck ==
    /\ pc = "check"
    /\ IF DurationReached(now)
       THEN /\ printed' = printed \cup {"reached_duration"}
            /\ pc' = "finally"
       ELSE /\ pc' = "recv"
            /\ UNCHANGED printed
    /\ UNCHANGED <<safetyVars, file, offlineVars, now, mode, duration, sock, metaCreated, binCreated, fopen,
                   count, t0, pkt, pktNone, exc, reported, lastBlock, nrecv, ninterrupts>>

\* sock.settimeout(timeout): how long recvfrom blocks before socket.timeout
TimeoutBlock == RECV_TIMEOUT

\* Mutant: the packet stamped with the time spent waiting for it.
StampAt_Blocked(entered, blocked) == blocked

\* ts = time.time(), read once recvfrom has returned: the clock at the entry
\* of the call plus the time the call blocked
StampAt(entered, blocked) == entered + blocked

\* rx.receive(timeout=5.0): a datagram within the timeout, stamped with the
\* clock at its arrival, or None after the timeout
Receive ==
    /\ pc \in {"recv", "l_recv"}
    /\ \/ \E d \in 0..TimeoutBlock, data \in RecvPayloads :
            /\ nrecv < MaxRecv
            /\ now + d <= MaxTime
            /\ now' = now + d
            /\ lastBlock' = d
            /\ pkt' = [timestamp |-> StampAt(now, d), data |-> data]
            /\ pktNone' = FALSE
            /\ nrecv' = nrecv + 1
       \/ /\ now + TimeoutBlock <= MaxTime
          /\ now' = now + TimeoutBlock
          /\ lastBlock' = TimeoutBlock
          /\ pktNone' = TRUE
          /\ UNCHANGED <<pkt, nrecv>>
    /\ pc' = IF pc = "recv" THEN "test_pkt" ELSE "l_test"
    /\ UNCHANGED <<safetyVars, file, offlineVars, mode, duration, sock, metaCreated, binCreated, fopen,
                   count, t0, exc, printed, reported, ninterrupts>>

\* Mutant: the duration test at the foot of the loop, which `continue` skips.
AfterTimeout_SkipCheck == "recv"

\* Mutant: a timeout ends the loop.
AfterTimeout_Break == "finally"

\* where `continue` takes record after a timeout: the head of the loop
AfterTimeout == "check"

\* if pkt is None: print(...); continue
RecTestPkt ==
    /\ pc = "test_pkt"
    /\ IF pktNone
       THEN /\ printed' = printed \cup {"idle"}
            /\ pc' = AfterTimeout
       ELSE /\ pc' = "write_header"
            /\ UNCHANGED printed
    /\ UNCHANGED <<safetyVars, file, offlineVars, now, mode, duration, sock, metaCreated, binCreated, fopen,
                   count, t0, pkt, pktNone, exc, reported, lastBlock, nrecv, ninterrupts>>

\* header = pkt_struct.pack(pkt.timestamp, len(pkt.data)); fbin.write(header)
RecWriteHeader ==
    /\ pc = "write_header"
    /\ \/ /\ file' = file \o pack(pkt.timestamp, Len(pkt.data))
          /\ pc' = "write_payload"
          /\ UNCHANGED exc
       \/ /\ exc' = "OSError"
          /\ pc' = "finally"
          /\ UNCHANGED file
    /\ UNCHANGED <<safetyVars, offlineVars, now, mode, duration, sock, metaCreated, binCreated, fopen,
                   count, t0, pkt, pktNone, printed, reported, lastBlock, nrecv, ninterrupts>>

\* fbin.write(pkt.data)
RecWritePayload ==
    /\ pc = "write_payload"
    /\ \/ /\ file' = file \o pkt.data
          /\ pc' = "count"
          /\ UNCHANGED exc
       \/ /\ exc' = "OSError"
          /\ pc' = "finally"
          /\ UNCHANGED file
    /\ UNCHANGED <<safetyVars, offlineVars, now, mode, duration, sock, metaCreated, binCreated, fopen,
                   count, t0, pkt, pktNone, printed, reported, lastBlock, nrecv, ninterrupts>>

\* count += 1; the progress line every 500 packets
RecCount ==
    /\ pc = "count"
    /\ count' = count + 1
    /\ printed' = IF (count + 1) % PROGRESS_EVERY = 0 THEN printed \cup {"progress"}
                  ELSE printed
    /\ pc' = "check"
    /\ UNCHANGED <<safetyVars, file, offlineVars, now, mode, duration, sock, metaCreated, binCreated, fopen,
                   t0, pkt, pktNone, exc, reported, lastBlock, nrecv, ninterrupts>>

\* except KeyboardInterrupt: print("Stopped by user.")
RecExcept ==
    /\ pc = "except"
    /\ printed' = printed \cup {"stopped_by_user"}
    /\ pc' = "finally"
    /\ UNCHANGED <<safetyVars, file, offlineVars, now, mode, duration, sock, metaCreated, binCreated, fopen,
                   count, t0, pkt, pktNone, exc, reported, lastBlock, nrecv, ninterrupts>>

\* finally: fbin.close()
RecFinally ==
    /\ pc = "finally"
    /\ fopen' = "closed"
    /\ pc' = "report"
    /\ UNCHANGED <<safetyVars, file, offlineVars, now, mode, duration, sock, metaCreated, binCreated,
                   count, t0, pkt, pktNone, exc, printed, reported, lastBlock, nrecv,
                   ninterrupts>>

\* finally: the three prints; then record returns, or the exception goes on
RecReport ==
    /\ pc = "report"
    /\ reported' = count
    /\ printed' = printed \cup {"final_count", "paths"}
    /\ pc' = IF exc = "none" THEN "done" ELSE "raised"
    /\ UNCHANGED <<safetyVars, file, offlineVars, now, mode, duration, sock, metaCreated, binCreated, fopen,
                   count, t0, pkt, pktNone, exc, lastBlock, nrecv, ninterrupts>>

\* listen: count = 0; t0 = time.time()
ListenInit ==
    /\ pc = "l_init"
    /\ count' = 0
    /\ t0' = now
    /\ pc' = "l_recv"
    /\ UNCHANGED <<safetyVars, file, offlineVars, now, mode, duration, sock, metaCreated, binCreated, fopen,
                   pkt, pktNone, exc, printed, reported, lastBlock, nrecv, ninterrupts>>

\* listen: if pkt is None: print(...); continue
ListenTestPkt ==
    /\ pc = "l_test"
    /\ IF pktNone
       THEN /\ printed' = printed \cup {"idle"}
            /\ pc' = "l_recv"
       ELSE /\ pc' = "l_count"
            /\ UNCHANGED printed
    /\ UNCHANGED <<safetyVars, file, offlineVars, now, mode, duration, sock, metaCreated, binCreated, fopen,
                   count, t0, pkt, pktNone, exc, reported, lastBlock, nrecv, ninterrupts>>

\* listen: count += 1; the progress line every 100 packets
ListenCount ==
    /\ pc = "l_count"
    /\ count' = count + 1
    /\ printed' = IF (count + 1) % LISTEN_PROGRESS_EVERY = 0 THEN printed \cup {"progress"}
                  ELSE printed
    /\ pc' = "l_recv"
    /\ UNCHANGED <<safetyVars, file, offlineVars, now, mode, duration, sock, metaCreated, binCreated, fopen,
                   t0, pkt, pktNone, exc, reported, lastBlock, nrecv, ninterrupts>>

\* listen: except KeyboardInterrupt: print("[listen] Stopped by user.")
ListenExcept ==
    /\ pc = "l_except"
    /\ printed' = printed \cup {"stopped_by_user"}
    /\ pc' = "done"
    /\ UNCHANGED <<safetyVars, file, offlineVars, now, mode, duration, sock, metaCreated, binCreated, fopen,
                   count, t0, pkt, pktNone, exc, reported, lastBlock, nrecv, ninterrupts>>

\* Where a KeyboardInterrupt raised at statement at takes the session: into
\* the except clause from inside a try block; past the rest of an except
\* clause into the finally clause; out of the function from anywhere else.
InterruptTarget(at) ==
    IF at \in RecordingPcs THEN "except"
    ELSE IF at \in ListeningPcs THEN "l_except"
    ELSE IF at = "except" THEN "finally"
    ELSE "raised"

\* SIGINT: KeyboardInterrupt is raised at the statement the session is at; a
\* blocked recvfrom is left after the time it has blocked so far.
Interrupt ==
    /\ pc \notin EndedPcs
    /\ ninterrupts < MaxInterrupts
    /\ ninterrupts' = ninterrupts + 1
    /\ pc' = InterruptTarget(pc)
    /\ exc' = IF pc \in RecordingPcs \cup ListeningPcs THEN exc ELSE "KeyboardInterrupt"
    /\ IF pc \in {"recv", "l_recv"}
       THEN \E d \in 0..TimeoutBlock :
               /\ now + d <= MaxTime
               /\ now' = now + d
               /\ lastBlock' = d
       ELSE UNCHANGED <<now, lastBlock>>
    /\ UNCHANGED <<safetyVars, file, offlineVars, mode, duration, sock, metaCreated, binCreated, fopen,
                   count, t0, pkt, pktNone, printed, reported, nrecv>>

Next ==
    \/ Connect
    \/ CreateMeta
    \/ OpenBin
    \/ RecInit
    \/ RecCheck
    \/ Receive
    \/ RecTestPkt
    \/ RecWriteHeader
    \/ RecWritePayload
    \/ RecCount
    \/ RecExcept
    \/ RecFinally
    \/ RecReport
    \/ ListenInit
    \/ ListenTestPkt
    \/ ListenCount
    \/ ListenExcept
    \/ Interrupt

Spec == InitLive /\ [][Next]_vars

\* =============================================================== SpecSafety
\* nav/safety_layer.py.  Velocities are whole numbers, distances are counted
\* in half metres (the default safe_distance of 1.5 m is 3).
Velocities == {-2, -1, 0, 1, 2}
YawRates == {-1, 0, 1}
Distances == {0, 1, 2, 3, 4}
SafeDistances == {2, 3}

\* Mutant: the clamp without the test for a forward command.
apply_safety_NoForwardTest(v, w, none, d, safe) ==
    LET v_out == IF ~none /\ d < safe THEN 0 ELSE v
    IN  <<v_out, w>>

\* apply_safety(v_des, w_des, min_distance_ahead, safe_distance)
apply_safety(v, w, none, d, safe) ==
    LET v_out == IF ~none /\ d < safe /\ v > 0 THEN 0 ELSE v
    IN  <<v_out, w>>

InitSafety ==
    /\ v_des \in Velocities
    /\ w_des \in YawRates
    /\ dNone \in BOOLEAN
    /\ d_min \in (IF dNone THEN {0} ELSE Distances)
    /\ safe_distance \in SafeDistances
    /\ spc = "call"
    /\ v_cmd = 0 /\ w_cmd = 0
    /\ file = <<>> /\ now = 0
    /\ inPkts = <<>> /\ wi = 1 /\ wpc = "closed" /\ truncAt = -1
    /\ loadDone = FALSE /\ loaded = <<>>
    /\ gpos = 0 /\ gdone = FALSE /\ genOut = <<>>
    /\ rpc = "start" /\ t0_original = 0 /\ t0_wall = 0 /\ cur = NoPacket
    /\ resumeAt = 0 /\ slept = 0 /\ nsleeps = 0 /\ emitted = <<>>
    /\ mode = "record" /\ duration = -1 /\ pc = "done" /\ sock = "none"
    /\ metaCreated = FALSE /\ binCreated = FALSE /\ fopen = "none"
    /\ count = 0 /\ t0 = 0 /\ pkt = NoPacket /\ pktNone = TRUE /\ exc = "none"
    /\ printed = {} /\ reported = -1 /\ lastBlock = 0 /\ nrecv = 0 /\ ninterrupts = 0

\* v_cmd, w_cmd = apply_safety(v_des, w_des, d_min, safe_distance=...)
ApplySafety ==
    /\ spc = "call"
    /\ LET r == apply_safety(v_des, w_des, dNone, d_min, safe_distance)
       IN  /\ v_cmd' = r[1]
           /\ w_cmd' = r[2]
    /\ spc' = "returned"
    /\ UNCHANGED <<file, now, writerVars, readerVars, replayVars, liveVars,
                   v_des, w_des, dNone, d_min, safe_distance>>

NextSafety == ApplySafety

SpecSafety == InitSafety /\ [][NextSafety]_vars

\* ------------------------------------------------------------------ C1
\* C1: round trip.  Once the writer has appended header and payload of every
\* packet of inPkts and the file is read back untouched, load_packets returns
\* exactly inPkts and the drained generator has yielded exactly inPkts: same
\* timestamps, same payloads, same order.
C1_RoundTrip ==
    (wpc = "closed" /\ truncAt = -1) =>
        /\ loadDone => loaded = inPkts
        /\ gdone => genOut = inPkts

\* Two different packets, one of them with an empty payload, written and read
\* back by both readers.
C1_Witness ==
    /\ wpc = "closed" /\ truncAt = -1 /\ loadDone /\ gdone
    /\ Len(inPkts) = 2
    /\ inPkts[1].data = <<>> /\ inPkts[2].data = <<0, 255>>
    /\ inPkts[1].timestamp # inPkts[2].timestamp
    /\ loaded = inPkts /\ genOut = inPkts

\* ------------------------------------------------------------------ C2
\* Offset at which the last record of the written sequence starts / ends.
LastStart == Len(Encode(SubSeq(inPkts, 1, Len(inPkts) - 1)))
LastEnd == Len(Encode(inPkts))
AllButLast == SubSeq(inPkts, 1, Len(inPkts) - 1)

\* C2: truncation tolerance.  When the file of N complete records was cut at
\* an offset strictly inside its Nth record (header or payload), both readers
\* stop cleanly with exactly the first N-1 records.
C2_TruncationTolerance ==
    (truncAt > LastStart /\ truncAt < LastEnd) =>
        /\ loadDone => loaded = AllButLast
        /\ gdone => genOut = AllButLast

\* A two-record file cut inside the payload of its second record, read by
\* both readers.
C2_Witness ==
    /\ Len(inPkts) = 2
    /\ truncAt = LastStart + HEADER_SIZE + 1
    /\ truncAt < LastEnd
    /\ loadDone /\ gdone
    /\ loaded = <<inPkts[1]>> /\ genOut = <<inPkts[1]>>

\* ------------------------------------------------------------------ C6
\* The wall-clock target of the i-th emitted record, from the values the
\* first emission fixed.
TargetOf(i) == emitted[1].at + (emitted[i].pkt.timestamp - emitted[1].pkt.timestamp)

\* C6: replay timing lower bound.  The first record is emitted at once (no
\* sleep, at the moment it was asked for); every later record is emitted no
\* earlier than t0_wall + (ts - t0_original); and t0_original and t0_wall
\* stay what they were when the first record was taken.
C6_ReplayLowerBound ==
    emitted # <<>> =>
        /\ emitted[1].slept = 0 /\ emitted[1].at = emitted[1].resumeAt
        /\ t0_original = emitted[1].pkt.timestamp
        /\ t0_wall = emitted[1].at
        /\ \A i \in 2..Len(emitted) :
             emitted[i].at >= t0_wall + (emitted[i].pkt.timestamp - t0_original)

\* Three records replayed, the second after a sleep, the third after a sleep
\* that took longer than asked.
C6_Witness ==
    /\ Len(emitted) = 3
    /\ emitted[2].slept > 0
    /\ emitted[3].slept > 0 /\ emitted[3].at > TargetOf(3)

\* ------------------------------------------------------------------ C7
\* C7: no compounding wait.  A record the consumer asks for at or after the
\* record's target is emitted at that moment, with no sleep, whatever delay
\* earlier records had.
C7_NoCompoundingWait ==
    \A i \in 2..Len(emitted) :
        emitted[i].resumeAt >= TargetOf(i) =>
            emitted[i].slept = 0 /\ emitted[i].at = emitted[i].resumeAt

\* The second record was consumed late, the third lies later in the log and
\* is asked for exactly at its target: it comes without a sleep.
C7_Witness ==
    /\ Len(emitted) = 3
    /\ emitted[2].at > TargetOf(2)
    /\ emitted[3].pkt.timestamp > emitted[2].pkt.timestamp
    /\ emitted[3].resumeAt = TargetOf(3)
    /\ emitted[3].slept = 0

\* ------------------------------------------------------------------ C8
EmittedPackets == [i \in 1..Len(emitted) |-> emitted[i].pkt]

\* C8: replay never drops or reorders.  At every moment the packets emitted
\* are a prefix of what the generator has decoded, at most one behind, and
\* when the replay is over they are exactly the generator's records, which
\* are the complete records of the file.
C8_ReplayNoDrop ==
    /\ Len(genOut) - Len(emitted) \in {0, 1}
    /\ EmittedPackets = SubSeq(genOut, 1, Len(emitted))
    /\ rpc = "done" => EmittedPackets = genOut /\ genOut = load_packets(file)

\* A replay of three records run to its end in which the consumer fell behind
\* the target of the last two.
C8_Witness ==
    /\ rpc = "done"
    /\ Len(emitted) = 3
    /\ emitted[2].at > TargetOf(2)
    /\ emitted[3].at > TargetOf(3)
    /\ emitted[3].pkt.timestamp < emitted[2].pkt.timestamp

\* ------------------------------------------------------------------ C10
\* C10: empty file.  On a zero-length file load_packets returns the empty
\* list, the generator is exhausted without a packet, packets_realtime ends
\* without a packet, without a sleep and without an error.
C10_EmptyFile ==
    file = <<>> =>
        /\ loadDone => loaded = <<>>
        /\ genOut = <<>>
        /\ emitted = <<>>
        /\ nsleeps = 0
        /\ rpc \in {"start", "done"}
        /\ rpc = "done" => gdone

\* The empty file, bulk-loaded and replayed to the end.
C10_Witness ==
    /\ file = <<>>
    /\ loadDone /\ loaded = <<>>
    /\ rpc = "done" /\ gdone

\* ------------------------------------------------------------------ C3
\* C3: guaranteed finalization.  Once record has opened the binary file, a
\* session that has ended (returned or raised) has closed the file and has
\* printed the final packet count and the paths.
C3_GuaranteedFinalization ==
    (mode = "record" /\ pc \in EndedPcs /\ fopen # "none") =>
        /\ fopen = "closed"
        /\ reported = count
        /\ "paths" \in printed

\* ------------------------------------------------------------------ C4
\* C4: duration bound on the stop time.  A recording with duration D is in
\* its loop no later than t0 + D + 5 s, and when it stops for the duration
\* the clock is no later than that.
C4_DurationStopBound ==
    (mode = "record" /\ duration # -1
        /\ (pc \in RecordingPcs \/ "reached_duration" \in printed)) =>
        now <= t0 + duration + RECV_TIMEOUT

\* A source that delivered every datagram it had, the last one at the very
\* end of a receive that began just before the duration was over; the
\* session then stopped for the duration.
C4_Witness ==
    /\ mode = "record" /\ duration = 2
    /\ "reached_duration" \in printed
    /\ "idle" \notin printed
    /\ count = MaxRecv
    /\ now = t0 + duration + RECV_TIMEOUT - 1
    /\ pc = "done"

\* ------------------------------------------------------------------ C5
\* C5 as claimed: after a recording with duration D every record of the
\* output file has a timestamp earlier than t0 + D.
C5_OnlyBeforeCutoff ==
    (mode = "record" /\ pc = "done" /\ "reached_duration" \in printed) =>
        \A i \in 1..Len(load_packets(file)) :
            load_packets(file)[i].timestamp < t0 + duration

\* C5 as amended: every record of the output file of a recording with
\* duration D has a timestamp earlier than t0 + D + 5 s: it was returned by
\* a receive that began before t0 + D and blocked for at most the timeout.
C5_RecordsWithinTimeout ==
    (mode = "record" /\ duration # -1) =>
        \A i \in 1..Len(load_packets(file)) :
            load_packets(file)[i].timestamp < t0 + duration + RECV_TIMEOUT

\* A finished recording whose file holds a record stamped after t0 + D.
C5_Witness ==
    /\ mode = "record" /\ duration = 1 /\ pc = "done"
    /\ "reached_duration" \in printed /\ ninterrupts = 0
    /\ fopen = "closed"
    /\ \E i \in 1..Len(load_packets(file)) :
         load_packets(file)[i].timestamp > t0 + duration

\* ------------------------------------------------------------------ C9
\* C9 as claimed, its last part: a session that has seen a timeout, no
\* packet and no stop request is still waiting in its receive loop.
C9_WaitsUntilPacketOrStop ==
    ("idle" \in printed /\ nrecv = 0 /\ ninterrupts = 0) =>
        pc \in RecordingPcs \cup ListeningPcs

\* C9 as amended: idle tolerance.  A receive that times out has blocked for
\* the whole timeout; the statement after it goes back into the loop with
\* count and file as they were and nothing raised; and a session that has
\* seen a timeout, no packet and no stop request is still in its receive
\* loop unless it is a recording whose configured duration has elapsed.
C9_IdleTolerance ==
    /\ [][(pc \in {"recv", "l_recv"} /\ pc' \in {"test_pkt", "l_test"} /\ pktNone')
            => now' = now + RECV_TIMEOUT]_vars
    /\ [][(pc \in {"test_pkt", "l_test"} /\ pktNone /\ ninterrupts' = ninterrupts)
            => /\ pc' = (IF pc = "test_pkt" THEN "check" ELSE "l_recv")
               /\ count' = count /\ file' = file /\ fopen' = fopen
               /\ exc' = "none"]_vars
    /\ [](("idle" \in printed /\ nrecv = 0 /\ ninterrupts = 0) =>
            \/ pc \in RecordingPcs \cup ListeningPcs
            \/ /\ mode = "record" /\ duration # -1 /\ now - t0 >= duration
               /\ "reached_duration" \in printed)

\* Two timeouts in a row, no packet, no stop request: the session is back at
\* the head of its loop with nothing counted and nothing written.
C9_Witness ==
    /\ "idle" \in printed /\ nrecv = 0 /\ ninterrupts = 0
    /\ now >= t0 + 2 * RECV_TIMEOUT
    /\ lastBlock = RECV_TIMEOUT
    /\ pc \in {"check", "l_recv"}
    /\ count = 0 /\ file = <<>> /\ exc = "none"

\* ------------------------------------------------------------------ C11
\* C11: resource release at session end.  When record has returned, after
\* normal completion or after an interruption it handled, the output file is
\* closed and the UDP socket is closed.
C11_ResourcesReleased ==
    (mode = "record" /\ pc = "done") =>
        /\ fopen = "closed"
        /\ sock = "closed"

\* ------------------------------------------------------------------ C12
\* The file is a whole number of records: no header without its payload, no
\* partial header.
FileIsWhole == file = Encode(load_packets(file))

\* C12: cooperative cancellation.  When a recording that was interrupted in
\* its loop (and had no write error) has finished, nothing is half-applied:
\* the file is a whole number of records and every record in it is counted.
C12_NothingHalfApplied ==
    (mode = "record" /\ pc = "done" /\ "stopped_by_user" \in printed /\ exc = "none") =>
        /\ FileIsWhole
        /\ count = Len(load_packets(file))

\* ------------------------------------------------------------------ C13
IsPrefix(a, b) == Len(a) <= Len(b) /\ a = SubSeq(b, 1, Len(a))

\* C13: bulk load and lazy iteration decode alike.  Whatever the file is
\* (whole, cut at any offset, empty), what the generator has yielded so far
\* is a prefix of what load_packets returned, and once the generator is
\* exhausted the two sequences are equal; a cut tail ends both without error.
C13_LoadEqualsGenerator ==
    loadDone =>
        /\ IsPrefix(genOut, loaded)
        /\ gdone => genOut = loaded

\* A two-record file cut inside the header of its second record: both
\* readers have finished and agree on the first record.
C13_Witness ==
    /\ loadDone /\ gdone
    /\ genOut = loaded
    /\ truncAt # -1
    /\ Len(inPkts) = 2 /\ Len(loaded) = 1
    /\ truncAt > LastStart /\ truncAt < LastStart + HEADER_SIZE

C15_FinalSummary ==
    pc = "done" =>
        /\ "final_count" \in printed
        /\ reported = count

\* ------------------------------------------------------------------ C16
\* C16: replay termination.  With a consumer that keeps asking and a clock
\* that keeps advancing, the replay of a finite file comes to its end: the
\* generator is exhausted after the last complete record.
C16_ReplayTerminates == <>(rpc = "done" /\ gdone)

\* A replay of three records, two of them after a sleep, that has ended.
C16_Witness ==
    /\ rpc = "done" /\ gdone
    /\ Len(emitted) = 3
    /\ nsleeps = 2

\* ------------------------------------------------------------------ C17
\* C17: count matches file.  Whenever a recording without a write error has
\* printed its final packet count, by duration or after an interruption at
\* any point of the loop, that count is the number of complete records a
\* reader decodes from the output file.
C17_CountMatchesFile ==
    (mode = "record" /\ reported # -1 /\ exc = "none") =>
        reported = Len(load_packets(file))

\* ------------------------------------------------------------------ C18
\* C18: a bind failure leaves no session artifacts.  No file exists before
\* the socket is bound; when the bind has failed, record has raised the
\* error, is never in its loop, and neither the binary log nor the metadata
\* sidecar of the session has been created.
C18_BindFailureNoArtifacts ==
    /\ (metaCreated \/ binCreated \/ fopen # "none") => sock = "bound"
    /\ sock = "unbound" =>
        /\ pc = "raised" /\ exc = "OSError"
        /\ ~metaCreated /\ ~binCreated /\ fopen = "none"
        /\ "logging_to" \notin printed
        /\ nrecv = 0 /\ count = 0

\* A recording whose bind failed.
C18_Witness ==
    /\ mode = "record"
    /\ sock = "unbound"
    /\ pc = "raised" /\ exc = "OSError"
    /\ ~metaCreated /\ ~binCreated

\* ------------------------------------------------------------------ C19
\* C19: safety clamp.  apply_safety returns linear velocity 0 when the
\* distance ahead is known, is below safe_distance and the command is
\* forward; in every other case (unknown distance, distance not below
\* safe_distance, zero or reverse command) it returns v_des as it was; the
\* angular velocity returned is always w_des.
C19_SafetyClamp ==
    spc = "returned" =>
        /\ (~dNone /\ d_min < safe_distance /\ v_des > 0) => v_cmd = 0
        /\ dNone => v_cmd = v_des
        /\ (~dNone /\ d_min >= safe_distance) => v_cmd = v_des
        /\ v_des <= 0 => v_cmd = v_des
        /\ v_cmd # v_des => (~dNone /\ d_min < safe_distance /\ v_des > 0)
        /\ w_cmd = w_des

\* A reverse command with an obstacle closer than safe_distance comes back
\* unchanged, with its yaw rate.
C19_Witness ==
    /\ spc = "returned"
    /\ ~dNone /\ d_min < safe_distance
    /\ v_des = -2 /\ v_cmd = -2
    /\ w_des = 1 /\ w_cmd = 1

====
